---------------------------- MODULE Spec2Model ----------------------------
(***************************************************************************)
(* Landing page scoring prototype (src/app/main.py): the heuristic scorer  *)
(* _mock_score, the orchestrator llm_score_page with its LLM attempt,      *)
(* response normalisation and fallback, and the routes /score and          *)
(* /compare.                                                               *)
(*                                                                         *)
(* Numbers.  Every Python number is held as an integer count of            *)
(* thousandths (8 is 8000, 3.67 is 3670, 7.123 is 7123), so that           *)
(* round(x, 2) is a real operation: it yields a multiple of 10.            *)
(*                                                                         *)
(* HTML.  A page is a sequence of chunks, each a literal piece of HTML     *)
(* text; consecutive chunks are separated by white space.  The regular     *)
(* expressions and substring tests of _mock_score are evaluated chunk by   *)
(* chunk (no keyword or element of the chunks below spans two chunks).     *)
(***************************************************************************)
EXTENDS Integers, Sequences, FiniteSets, TLC

VARIABLES
    USE_MOCK,        \* line 18: the forced-heuristic flag, read once at start
    OPENAI_API_KEY,  \* line 19: TRUE iff a credential is present
    pc,              \* position of the request being served
    kind,            \* "score" | "compare" | "none": the route serving it
    phase,           \* which llm_score_page call runs: "single"|"before"|"after"
    req,             \* the request body
    content,         \* the LLM client's reply in the current llm_score_page call
    err,             \* class name of the exception caught on line 162
    result,          \* return value of the llm_score_page call that last returned
    path,            \* how that call returned: "mock" | "llm" | "fallback"
    before,          \* compare_pages: line 181
    after,           \* compare_pages: line 182
    delta,           \* compare_pages: lines 183-187
    llm_calls,       \* client.chat.completions.create calls made for this request
    surfaced,        \* class name of an exception that reached the caller, or ""
    swap             \* the compare request served just before on the swapped pages

vars == <<USE_MOCK, OPENAI_API_KEY, pc, kind, phase, req, content, err, result,
          path, before, after, delta, llm_calls, surfaced, swap>>

-----------------------------------------------------------------------------
(* Bounds of the model.                                                    *)

\* longest page, in chunks, given to the heuristic scorer specification
MaxChunks == 3
\* longest explicit criteria list given to the heuristic scorer specification
MaxHeurCriteria == 2
\* longest page, in chunks, of a request of the request specifications
MaxReqChunks == 1
\* longest explicit criteria list of a request of the request specifications
MaxReqCriteria == 2

-----------------------------------------------------------------------------
(* Generic helpers.                                                        *)

Range(s) == {s[i] : i \in 1..Len(s)}

BoundedSeq(S, n) == UNION {[1..k -> S] : k \in 0..n}

Max(a, b) == IF a >= b THEN a ELSE b

Min(a, b) == IF a <= b THEN a ELSE b

RECURSIVE SumOver(_, _)
SumOver(f, S) ==
    IF S = {} THEN 0
    ELSE LET k == CHOOSE k \in S : TRUE IN f[k] + SumOver(f, S \ {k})

\* round() mistaken for truncation to 2 decimals
Round2Floor(num, den) == 10 * (num \div (10 * den))

\* Python's round(num/den, 2), in thousandths: the nearest multiple of 10,
\* an exact tie going to the even hundredth.  num is in thousandths, den > 0.
Round2(num, den) ==
    LET f   == num \div (10 * den)
        rem == num - f * 10 * den
    IN  IF 2 * rem < 10 * den THEN 10 * f
        ELSE IF 2 * rem > 10 * den THEN 10 * (f + 1)
        ELSE IF f % 2 = 0 THEN 10 * f ELSE 10 * (f + 1)

-----------------------------------------------------------------------------
(* JSON / Python values.                                                   *)

\* a number (thousandths) or a string where a score or overall is expected
Num(n) == [t |-> "num", n |-> n]

Str == [t |-> "str", n |-> 0]

\* {"score": s, "feedback": fb}, s an integer score
Entry(s, fb) == [t |-> "obj", has_score |-> TRUE, score |-> Num(s * 1000), feedback |-> fb]

\* {"feedback": fb}: a mapping without a score
EntryNoScore(fb) == [t |-> "obj", has_score |-> FALSE, score |-> Num(0), feedback |-> fb]

\* {"score": "high", "feedback": fb}: a mapping with a non-numeric score
EntryStrScore(fb) == [t |-> "obj", has_score |-> TRUE, score |-> Str, feedback |-> fb]

\* a bare number where a {"score", "feedback"} mapping is expected
EntryBare(s) == [t |-> "num", has_score |-> FALSE, score |-> Num(s * 1000), feedback |-> ""]

NoScores == [c \in {} |-> Entry(0, "")]

NoResult == [scores |-> NoScores, overall |-> 0, notes |-> ""]

NoDelta == [c \in {} |-> 0]

-----------------------------------------------------------------------------
(* The heuristic scorer: _mock_score, lines 68-100.                        *)

DEFAULT_CRITERIA == <<"clarity", "credibility", "cta">>

H1Chunk == "<h1>Hi</h1>"

TitleChunk == "<title>T</title>"

ButtonChunk == "<button>Go</button>"

CtaChunk == "sign up"

ReviewsChunk == "reviews"

TrustChunk == "trusted by clients partners privacy secure gdpr https"

\* 60 words and 401 words of plain copy holding none of the keywords
Copy60Chunk == "copy x 60"

Copy401Chunk == "copy x 401"

Chunks == {H1Chunk, TitleChunk, ButtonChunk, CtaChunk, ReviewsChunk, TrustChunk,
           Copy60Chunk, Copy401Chunk}

\* line 74, per chunk: the white-space separated tokens left once the tags
\* are replaced by spaces (line 69)
WordsOf(c) ==
    CASE c = H1Chunk -> 1
      [] c = TitleChunk -> 1
      [] c = ButtonChunk -> 1
      [] c = CtaChunk -> 2
      [] c = ReviewsChunk -> 1
      [] c = TrustChunk -> 8
      [] c = Copy60Chunk -> 60
      [] c = Copy401Chunk -> 401

\* line 73, per chunk: the trust keywords that are substrings of its text
\* ("reviews" holds both "review" and "reviews")
TrustKeywordsOf(c) ==
    CASE c = ReviewsChunk -> {"review", "reviews"}
      [] c = TrustChunk -> {"trusted by", "clients", "partners", "privacy", "secure", "gdpr",
                            "https"}
      [] OTHER -> {}

\* line 70: re.search(r"<h1[^>]*>.*?</h1>", html)
have_h1(html) == \E i \in 1..Len(html) : html[i] = H1Chunk

\* line 71: re.search(r"<title[^>]*>.*?</title>", html)
have_title(html) == \E i \in 1..Len(html) : html[i] = TitleChunk

\* line 72: "<button" in html.lower(), or a call-to-action keyword in the text
have_btn(html) ==
    \/ \E i \in 1..Len(html) : html[i] = ButtonChunk
    \/ \E i \in 1..Len(html) : html[i] = CtaChunk

\* line 73: sum(k in txt for k in [...]): each keyword counts once
trust_kw(html) == Cardinality(UNION {TrustKeywordsOf(html[i]) : i \in 1..Len(html)})

\* line 88: "https" in txt
have_https(html) == \E i \in 1..Len(html) : html[i] = TrustChunk

\* line 74: len(txt.split())
RECURSIVE words(_)
words(html) == IF html = <<>> THEN 0 ELSE WordsOf(Head(html)) + words(Tail(html))

\* lines 80, 85, 93: max(1, min(10, s))
Clamp(s) == Max(1, Min(10, s))

\* the weights of the heading and of the title exchanged
ClarityScoreSwapped(html) ==
    4 + (IF have_h1(html) THEN 2 ELSE 0) + (IF have_title(html) THEN 3 ELSE 0)
      + (IF 50 <= words(html) /\ words(html) <= 400 THEN 1 ELSE 0)

\* line 79
ClarityScore(html) ==
    4 + (IF have_h1(html) THEN 3 ELSE 0) + (IF have_title(html) THEN 2 ELSE 0)
      + (IF 50 <= words(html) /\ words(html) <= 400 THEN 1 ELSE 0)

\* line 81
ClarityFeedback(html) ==
    (IF have_h1(html) THEN "Clear headline." ELSE "Add a clear H1.")
    \o (IF words(html) > 400 THEN " Keep copy concise." ELSE "")

\* line 84
CredibilityScore(html) == 3 + Min(7, trust_kw(html))

\* lines 86-89
CredibilityFeedback(html) ==
    IF trust_kw(html) = 0
    THEN (IF ~have_https(html)
          THEN "Add testimonials/trust badges. Show security/privacy info."
          ELSE "Add testimonials/trust badges.")
    ELSE (IF ~have_https(html) THEN "Show security/privacy info." ELSE "Good trust signals.")

\* line 92
CtaScore(html) == 4 + (IF have_btn(html) THEN 4 ELSE 0) + (IF have_h1(html) THEN 2 ELSE 0)

\* line 94
CtaFeedback(html) == IF have_btn(html) THEN "CTA visible." ELSE "Add a prominent CTA."

\* the normaliser's default (score 0) given to a criterion the heuristic
\* does not know
MockEntryZero(html, c) ==
    CASE c = "clarity" -> Entry(Clamp(ClarityScore(html)), ClarityFeedback(html))
      [] c = "credibility" -> Entry(Clamp(CredibilityScore(html)), CredibilityFeedback(html))
      [] c = "cta" -> Entry(Clamp(CtaScore(html)), CtaFeedback(html))
      [] OTHER -> Entry(0, "")

\* lines 76-97: the entry of one requested criterion
MockEntry(html, c) ==
    CASE c = "clarity" -> Entry(Clamp(ClarityScore(html)), ClarityFeedback(html))
      [] c = "credibility" -> Entry(Clamp(CredibilityScore(html)), CredibilityFeedback(html))
      [] c = "cta" -> Entry(Clamp(CtaScore(html)), CtaFeedback(html))
      [] OTHER -> Entry(5, "OK")

\* line 99 and line 158: round(sum(v["score"] for v in scores.values())/len(scores), 2)
MeanOfScores(scores) ==
    Round2(SumOver([c \in DOMAIN scores |-> scores[c].score.n], DOMAIN scores),
           Cardinality(DOMAIN scores))

\* lines 68-100; criteria is never empty here (line 135)
_mock_score(html, criteria) ==
    LET scores == [c \in Range(criteria) |-> MockEntry(html, c)]
    IN  [scores |-> scores,
         overall |-> MeanOfScores(scores),
         notes |-> "Mock mode: heuristic scoring"]

-----------------------------------------------------------------------------
(* The LLM client's outcomes and the reply it returns.                     *)

\* resp.choices[0].message.content (line 150) as json.loads would read it:
\* t = "text" is text that is not JSON, "list" a JSON array, "obj" a JSON
\* object with or without "scores" (a mapping or an array), "overall" (a
\* number or a string) and "notes"
Reply(has_scores, scores_t, scores, has_overall, overall, has_notes, notes) ==
    [t |-> "obj", has_scores |-> has_scores, scores_t |-> scores_t, scores |-> scores,
     has_overall |-> has_overall, overall |-> overall,
     has_notes |-> has_notes, notes |-> notes]

EmptyObject == Reply(FALSE, "map", NoScores, FALSE, Num(0), FALSE, "")

NotJson == [EmptyObject EXCEPT !.t = "text"]

JsonList == [EmptyObject EXCEPT !.t = "list"]

NoContent == [EmptyObject EXCEPT !.t = "none"]

\* an outcome of lines 142-150: the import fails, the call raises, or the
\* call returns a reply
ImportFails(e) == [stage |-> "import", err |-> e, content |-> NoContent]

CallFails(e) == [stage |-> "call", err |-> e, content |-> NoContent]

Returns(r) == [stage |-> "reply", err |-> "", content |-> r]

OneScore(e) == [c \in {"clarity"} |-> e]

\* {"scores": {"clarity": {"score": 8, ...}}, "overall": 7.123, "notes": "LLM"}
ReplyKeptOverall ==
    Reply(TRUE, "map", OneScore(Entry(8, "Crisp headline.")), TRUE, Num(7123), TRUE, "LLM")

\* all three default criteria answered, no overall, no notes
ReplyDefaults ==
    Reply(TRUE, "map",
          [c \in Range(DEFAULT_CRITERIA) |->
              IF c = "clarity" THEN Entry(9, "Clear.")
              ELSE IF c = "credibility" THEN Entry(5, "Some proof.")
              ELSE Entry(6, "Visible.")],
          FALSE, Num(0), FALSE, "")

\* a score of 15, a criterion nobody asked for named "overall", and a
\* non-numeric overall
ReplyOutOfRange ==
    Reply(TRUE, "map",
          [c \in {"clarity", "overall"} |->
              IF c = "clarity" THEN Entry(15, "Great.") ELSE Entry(2, "Weak.")],
          TRUE, Str, TRUE, "LLM")

\* {"scores": [...]}
ReplyScoresList == Reply(TRUE, "list", NoScores, TRUE, Num(5000), TRUE, "LLM")

\* {"scores": {"clarity": 5}, "overall": 5}
ReplyBareEntry == Reply(TRUE, "map", OneScore(EntryBare(5)), TRUE, Num(5000), TRUE, "LLM")

\* {"scores": {"clarity": {"feedback": "Fine."}}, "overall": 5}
ReplyNoScore ==
    Reply(TRUE, "map", OneScore(EntryNoScore("Fine.")), TRUE, Num(5000), TRUE, "LLM")

\* {"scores": {"clarity": 5}}: overall must be recomputed
ReplyBareEntryOnly == Reply(TRUE, "map", OneScore(EntryBare(5)), FALSE, Num(0), TRUE, "LLM")

\* {"scores": {"clarity": {"feedback": "Fine."}}}: overall must be recomputed
ReplyNoScoreOnly ==
    Reply(TRUE, "map", OneScore(EntryNoScore("Fine.")), FALSE, Num(0), TRUE, "LLM")

\* {"scores": {"clarity": {"score": "high", ...}}}: overall must be recomputed
ReplyStrScore ==
    Reply(TRUE, "map", OneScore(EntryStrScore("Fine.")), FALSE, Num(0), TRUE, "LLM")

\* {"scores": {"clarity": {"score": "high", ...}}, "overall": 5}
ReplyStrScoreOverall ==
    Reply(TRUE, "map", OneScore(EntryStrScore("Fine.")), TRUE, Num(5000), TRUE, "LLM")

LLMOutcomes ==
    {ImportFails("ModuleNotFoundError"), CallFails("APIConnectionError"),
     CallFails("APITimeoutError"),
     Returns(NotJson), Returns(JsonList), Returns(EmptyObject),
     Returns(ReplyKeptOverall), Returns(ReplyDefaults), Returns(ReplyOutOfRange),
     Returns(ReplyScoresList), Returns(ReplyBareEntry), Returns(ReplyNoScore),
     Returns(ReplyBareEntryOnly), Returns(ReplyNoScoreOnly),
     Returns(ReplyStrScore), Returns(ReplyStrScoreOverall)}

\* the outcomes of the swapped-compare specification
SwapOutcomes ==
    {CallFails("APITimeoutError"), Returns(ReplyKeptOverall), Returns(ReplyDefaults)}

-----------------------------------------------------------------------------
(* llm_score_page, lines 134-166.                                          *)

\* line 135 (and line 180): criteria or DEFAULT_CRITERIA; None and the empty
\* list are both falsy
Criteria(c) == IF c.none \/ c.list = <<>> THEN DEFAULT_CRITERIA ELSE c.list

\* the heuristic path taken only when the flag is set and the credential missing
MockModeBothNeeded == USE_MOCK /\ ~OPENAI_API_KEY

\* line 138
MockMode == USE_MOCK \/ ~OPENAI_API_KEY

\* a missing criterion filled with the heuristic's neutral default
FilledScoresNeutral(data, criteria) ==
    LET given == IF data.has_scores THEN data.scores ELSE [c \in {} |-> Entry(0, "")]
    IN  [c \in DOMAIN given \cup Range(criteria) |->
            IF c \in DOMAIN given THEN given[c] ELSE Entry(5, "OK")]

\* lines 153-155: data.setdefault("scores", {}) and one setdefault per criterion
FilledScores(data, criteria) ==
    LET given == IF data.has_scores THEN data.scores ELSE NoScores
    IN  [c \in DOMAIN given \cup Range(criteria) |->
            IF c \in DOMAIN given THEN given[c] ELSE Entry(0, "")]

\* line 156
KeepsOverall(data) == data.has_overall /\ data.overall.t = "num"

\* line 157 and the sum of line 158: the exception they raise, or "".
\* v["score"] raises TypeError on a value that is no mapping and KeyError on a
\* mapping without "score"; sum raises TypeError on a string.  (No reply of
\* LLMOutcomes mixes two of these, so the dictionary order decides nothing.)
RecomputeError(scores) ==
    IF \E c \in DOMAIN scores : scores[c].t # "obj" THEN "TypeError"
    ELSE IF \E c \in DOMAIN scores : ~scores[c].has_score THEN "KeyError"
    ELSE IF \E c \in DOMAIN scores : scores[c].score.t # "num" THEN "TypeError"
    ELSE ""

\* lines 151-160: json.loads and the normalisation of its value.  ok = FALSE
\* with the class of the exception raised, or ok = TRUE with the data returned
Normalize(reply, criteria) ==
    IF reply.t = "text" THEN [ok |-> FALSE, err |-> "JSONDecodeError", data |-> NoResult]
    ELSE IF reply.t = "list" THEN [ok |-> FALSE, err |-> "AttributeError", data |-> NoResult]
    ELSE IF reply.has_scores /\ reply.scores_t # "map"
    THEN [ok |-> FALSE, err |-> "AttributeError", data |-> NoResult]
    ELSE LET scores == FilledScores(reply, criteria)
         IN  IF KeepsOverall(reply)
             THEN [ok |-> TRUE, err |-> "",
                   data |-> [scores |-> scores, overall |-> reply.overall.n,
                             notes |-> IF reply.has_notes THEN reply.notes ELSE ""]]
             ELSE IF RecomputeError(scores) # ""
             THEN [ok |-> FALSE, err |-> RecomputeError(scores), data |-> NoResult]
             ELSE [ok |-> TRUE, err |-> "",
                   data |-> [scores |-> scores, overall |-> MeanOfScores(scores),
                             notes |-> IF reply.has_notes THEN reply.notes ELSE ""]]

\* line 165
FallbackNotes(e) == "Mock fallback due to error: " \o e

\* the fallback without line 165
FallbackKeepsNotes(html, criteria, e) == _mock_score(html, criteria)

\* lines 162-166
FallbackResult(html, criteria, e) ==
    [_mock_score(html, criteria) EXCEPT !.notes = FallbackNotes(e)]

-----------------------------------------------------------------------------
(* compare_pages, lines 178-188, and the response models, lines 49-63.     *)

\* lines 185 and 186: the value read for key c from one ScoreResult
Looked(r, c) == IF c \in DOMAIN r.scores THEN r.scores[c].score ELSE Num(r.overall)

\* lines 185-187 for key c: the exception raised, or ""
KeyError1(r, c) ==
    IF c \notin DOMAIN r.scores THEN ""
    ELSE IF r.scores[c].t # "obj" THEN "TypeError"
    ELSE IF ~r.scores[c].has_score THEN "KeyError"
    ELSE ""

DeltaKeyError(b, a, c) ==
    IF KeyError1(b, c) # "" THEN KeyError1(b, c)
    ELSE IF KeyError1(a, c) # "" THEN KeyError1(a, c)
    ELSE IF Looked(b, c).t # "num" \/ Looked(a, c).t # "num" THEN "TypeError"
    ELSE ""

\* line 184: the loop over criteria + ["overall"] stops at the first exception
RECURSIVE DeltaError(_, _, _)
DeltaError(b, a, keys) ==
    IF keys = <<>> THEN ""
    ELSE IF DeltaKeyError(b, a, Head(keys)) # "" THEN DeltaKeyError(b, a, Head(keys))
    ELSE DeltaError(b, a, Tail(keys))

\* the size of the change instead of the signed change
DeltaOfAbs(b, a, c) ==
    LET d == Round2(Looked(a, c).n - Looked(b, c).n, 1) IN IF d < 0 THEN 0 - d ELSE d

\* line 187: round(a - b, 2)
DeltaOf(b, a, c) == Round2(Looked(a, c).n - Looked(b, c).n, 1)

\* lines 183-187
Delta(b, a, criteria) ==
    [c \in Range(criteria) \cup {"overall"} |-> DeltaOf(b, a, c)]

\* response_model=ScoreResponse (lines 49-52, 173): scores must be a mapping
\* of mappings
ValidScoreResponse(r) == \A c \in DOMAIN r.scores : r.scores[c].t = "obj"

-----------------------------------------------------------------------------
(* The requests.                                                           *)

NoCriteria == [none |-> TRUE, list |-> <<>>]

CriteriaInputs(names, n) ==
    {NoCriteria} \cup {[none |-> FALSE, list |-> l] : l \in BoundedSeq(names, n)}

NoRequest == [html |-> <<>>, after_html |-> <<>>, criteria |-> NoCriteria]

NoSwap == [active |-> FALSE, before |-> NoResult, after |-> NoResult, delta |-> NoDelta]

\* the pages and criteria of the heuristic scorer specification
HeurPages == BoundedSeq(Chunks, MaxChunks)

HeurCriteria == CriteriaInputs({"clarity", "credibility", "cta", "tone"}, MaxHeurCriteria)

\* the pages and criteria of the request specifications
ReqPages == BoundedSeq({H1Chunk, ButtonChunk, ReviewsChunk}, MaxReqChunks)

ReqCriteria == CriteriaInputs({"clarity", "overall"}, MaxReqCriteria)

\* the html argument of the llm_score_page call in progress or just returned
Html == IF phase = "after" THEN req.after_html ELSE req.html

Init ==
    /\ USE_MOCK \in BOOLEAN
    /\ OPENAI_API_KEY \in BOOLEAN
    /\ pc = "idle"
    /\ kind = "none"
    /\ phase = "single"
    /\ req = NoRequest
    /\ content = NoContent
    /\ err = ""
    /\ result = NoResult
    /\ path = "none"
    /\ before = NoResult
    /\ after = NoResult
    /\ delta = NoDelta
    /\ llm_calls = 0
    /\ surfaced = ""
    /\ swap = NoSwap

\* the heuristic scorer specification runs in forced-heuristic configuration
InitHeur == Init /\ USE_MOCK

\* POST /score, line 175: llm_score_page(req.html, req.url, req.criteria),
\* for a body drawn from the given pages and criteria lists
ScoreRequest(Pages, Lists) ==
    /\ pc = "idle"
    /\ \E html \in Pages, criteria \in Lists :
          req' = [html |-> html, after_html |-> <<>>, criteria |-> criteria]
    /\ pc' = "dispatch"
    /\ kind' = "score"
    /\ phase' = "single"
    /\ UNCHANGED <<USE_MOCK, OPENAI_API_KEY, content, err, result, path, before,
                   after, delta, llm_calls, surfaced, swap>>

\* POST /compare, lines 180-181: the call for before_html
CompareRequest(Pages, Lists) ==
    /\ pc = "idle"
    /\ \E before_html \in Pages, after_html \in Pages, criteria \in Lists :
          req' = [html |-> before_html, after_html |-> after_html, criteria |-> criteria]
    /\ pc' = "dispatch"
    /\ kind' = "compare"
    /\ phase' = "before"
    /\ UNCHANGED <<USE_MOCK, OPENAI_API_KEY, content, err, result, path, before,
                   after, delta, llm_calls, surfaced, swap>>

\* lines 138-139: return _mock_score(html, criteria)
MockPath ==
    /\ pc = "dispatch"
    /\ MockMode
    /\ result' = _mock_score(Html, Criteria(req.criteria))
    /\ path' = "mock"
    /\ pc' = "returned"
    /\ UNCHANGED <<USE_MOCK, OPENAI_API_KEY, kind, phase, req, content, err, before,
                   after, delta, llm_calls, surfaced, swap>>

\* line 141: the try block is entered
EnterLLM ==
    /\ pc = "dispatch"
    /\ ~MockMode
    /\ pc' = "llm_attempt"
    /\ UNCHANGED <<USE_MOCK, OPENAI_API_KEY, kind, phase, req, content, err, result,
                   path, before, after, delta, llm_calls, surfaced, swap>>

\* lines 142-150: import, prompt, the one call of the client, its reply;
\* the outcome is one of the given outcomes
LLMInvoke(Outcomes) ==
    /\ pc = "llm_attempt"
    /\ \E o \in Outcomes :
          /\ llm_calls' = IF o.stage = "import" THEN llm_calls ELSE llm_calls + 1
          /\ IF o.stage = "reply"
             THEN pc' = "normalize" /\ content' = o.content /\ err' = err
             ELSE pc' = "except" /\ content' = content /\ err' = o.err
    /\ UNCHANGED <<USE_MOCK, OPENAI_API_KEY, kind, phase, req, result, path, before,
                   after, delta, surfaced, swap>>

\* lines 151-160
NormalizeReply ==
    /\ pc = "normalize"
    /\ LET n == Normalize(content, Criteria(req.criteria))
       IN  IF n.ok
           THEN /\ result' = n.data
                /\ path' = "llm"
                /\ pc' = "returned"
                /\ err' = err
           ELSE /\ err' = n.err
                /\ pc' = "except"
                /\ UNCHANGED <<result, path>>
    /\ UNCHANGED <<USE_MOCK, OPENAI_API_KEY, kind, phase, req, content, before, after,
                   delta, llm_calls, surfaced, swap>>

\* a failed attempt tried again before falling back
FallbackRetries ==
    /\ pc = "except"
    /\ IF llm_calls < 3
       THEN pc' = "llm_attempt" /\ UNCHANGED <<result, path>>
       ELSE /\ result' = FallbackResult(Html, Criteria(req.criteria), err)
            /\ path' = "fallback"
            /\ pc' = "returned"
    /\ UNCHANGED <<USE_MOCK, OPENAI_API_KEY, kind, phase, req, content, err, before,
                   after, delta, llm_calls, surfaced, swap>>

\* lines 162-166
Fallback ==
    /\ pc = "except"
    /\ result' = FallbackResult(Html, Criteria(req.criteria), err)
    /\ path' = "fallback"
    /\ pc' = "returned"
    /\ UNCHANGED <<USE_MOCK, OPENAI_API_KEY, kind, phase, req, content, err, before,
                   after, delta, llm_calls, surfaced, swap>>

\* lines 181-182: before is bound and the call for after_html starts
CallAfter ==
    /\ pc = "returned"
    /\ phase = "before"
    /\ before' = result
    /\ phase' = "after"
    /\ pc' = "dispatch"
    /\ content' = NoContent
    /\ err' = ""
    /\ UNCHANGED <<USE_MOCK, OPENAI_API_KEY, kind, req, result, path, after, delta,
                   llm_calls, surfaced, swap>>

\* lines 182-187: after is bound and the delta loop runs
ComputeDelta ==
    /\ pc = "returned"
    /\ phase = "after"
    /\ after' = result
    /\ LET keys == Criteria(req.criteria) \o <<"overall">>
           e    == DeltaError(before, result, keys)
       IN  IF e # ""
           THEN pc' = "failed" /\ surfaced' = e /\ delta' = delta
           ELSE /\ pc' = "respond"
                /\ surfaced' = surfaced
                /\ delta' = Delta(before, result, Criteria(req.criteria))
    /\ UNCHANGED <<USE_MOCK, OPENAI_API_KEY, kind, phase, req, content, err, result,
                   path, before, llm_calls, swap>>

\* line 176: score_page returns the result to the route
ScoreReturn ==
    /\ pc = "returned"
    /\ phase = "single"
    /\ pc' = "respond"
    /\ UNCHANGED <<USE_MOCK, OPENAI_API_KEY, kind, phase, req, content, err, result,
                   path, before, after, delta, llm_calls, surfaced, swap>>

\* lines 173 and 178: the returned value is validated against the response
\* model; a value that does not fit is an error of the request
Respond ==
    /\ pc = "respond"
    /\ LET valid == IF kind = "score" THEN ValidScoreResponse(result)
                    ELSE ValidScoreResponse(before) /\ ValidScoreResponse(after)
       IN  IF valid
           THEN pc' = "done" /\ surfaced' = surfaced
           ELSE pc' = "failed" /\ surfaced' = "ResponseValidationError"
    /\ UNCHANGED <<USE_MOCK, OPENAI_API_KEY, kind, phase, req, content, err, result,
                   path, before, after, delta, llm_calls, swap>>

\* the request is over; nothing of it is kept (the configuration stays)
NextRequest ==
    /\ pc \in {"done", "failed"}
    /\ pc' = "idle"
    /\ kind' = "none"
    /\ phase' = "single"
    /\ req' = NoRequest
    /\ content' = NoContent
    /\ err' = ""
    /\ result' = NoResult
    /\ path' = "none"
    /\ before' = NoResult
    /\ after' = NoResult
    /\ delta' = NoDelta
    /\ llm_calls' = 0
    /\ surfaced' = ""
    /\ swap' = NoSwap
    /\ UNCHANGED <<USE_MOCK, OPENAI_API_KEY>>

\* the client of a finished compare request sends it again with before_html
\* and after_html swapped; swap remembers what the first one returned
SwapRequest ==
    /\ pc = "done"
    /\ kind = "compare"
    /\ ~swap.active
    /\ swap' = [active |-> TRUE, before |-> before, after |-> after, delta |-> delta]
    /\ req' = [req EXCEPT !.html = req.after_html, !.after_html = req.html]
    /\ pc' = "dispatch"
    /\ phase' = "before"
    /\ content' = NoContent
    /\ err' = ""
    /\ result' = NoResult
    /\ path' = "none"
    /\ before' = NoResult
    /\ after' = NoResult
    /\ delta' = NoDelta
    /\ llm_calls' = 0
    /\ UNCHANGED <<USE_MOCK, OPENAI_API_KEY, kind, surfaced>>

\* the steps of llm_score_page and of the two routes
Steps ==
    \/ MockPath
    \/ EnterLLM
    \/ NormalizeReply
    \/ Fallback
    \/ CallAfter
    \/ ComputeDelta
    \/ ScoreReturn
    \/ Respond
    \/ NextRequest

Next ==
    \/ ScoreRequest(ReqPages, ReqCriteria)
    \/ CompareRequest(ReqPages, ReqCriteria)
    \/ LLMInvoke(LLMOutcomes)
    \/ Steps

Spec == Init /\ [][Next]_vars

\* /score in forced-heuristic configuration, over every page and criteria list
NextHeur ==
    \/ ScoreRequest(HeurPages, HeurCriteria)
    \/ MockPath
    \/ ScoreReturn
    \/ Respond
    \/ NextRequest

SpecHeur == InitHeur /\ [][NextHeur]_vars

\* /compare followed by the same request with the two pages swapped
NextSwap ==
    \/ CompareRequest(ReqPages, ReqCriteria)
    \/ LLMInvoke(SwapOutcomes)
    \/ MockPath
    \/ EnterLLM
    \/ NormalizeReply
    \/ Fallback
    \/ CallAfter
    \/ ComputeDelta
    \/ Respond
    \/ NextRequest
    \/ SwapRequest

SpecSwap == Init /\ [][NextSwap]_vars

-----------------------------------------------------------------------------
(* Properties.                                                             *)

B(x) == IF x THEN 1 ELSE 0

Abs(x) == IF x < 0 THEN 0 - x ELSE x

InRange1To10(v) == IF v < 1 THEN 1 ELSE IF v > 10 THEN 10 ELSE v

\* v (thousandths) is x (thousandths, over den) rounded to 2 decimals: a
\* whole number of hundredths at most 0.005 away from x/den
IsRounded2(v, x, den) == v % 10 = 0 /\ Abs(den * v - x) <= 5 * den

AllNumeric(scores) ==
    \A c \in DOMAIN scores :
        scores[c].t = "obj" /\ scores[c].has_score /\ scores[c].score.t = "num"

\* r.overall is the mean of the scores of r.scores rounded to 2 decimals
OverallIsRoundedMean(r) ==
    /\ DOMAIN r.scores # {}
    /\ AllNumeric(r.scores)
    /\ IsRounded2(r.overall,
                  SumOver([c \in DOMAIN r.scores |-> r.scores[c].score.n], DOMAIN r.scores),
                  Cardinality(DOMAIN r.scores))

\* the criteria the current request asks for
Requested == Range(IF req.criteria.none \/ req.criteria.list = <<>>
                   THEN <<"clarity", "credibility", "cta">> ELSE req.criteria.list)

\* an llm_score_page call has just returned
Returned == pc = "returned"

\* C1: when llm_score_page takes the LLM path and an error is raised in the
\* import, the client call or the normalisation, it returns without raising
\* the scores and overall of _mock_score for the same html and criteria, and
\* notes that name the fallback and the class of the error.
C1_FallbackIsHeuristic ==
    (Returned /\ path = "fallback") =>
        /\ ~USE_MOCK /\ OPENAI_API_KEY
        /\ err # ""
        /\ surfaced = ""
        /\ result.scores = _mock_score(Html, Criteria(req.criteria)).scores
        /\ result.overall = _mock_score(Html, Criteria(req.criteria)).overall
        /\ result.notes = "Mock fallback due to error: " \o err

C1_Witness ==
    /\ Returned /\ path = "fallback" /\ err = "AttributeError"
    /\ Html # <<>>
    /\ result.notes = "Mock fallback due to error: AttributeError"

\* every score of the mapping is a number from 1 to 10
ScoresInRange(scores) ==
    \A c \in DOMAIN scores :
        /\ scores[c].t = "obj"
        /\ scores[c].has_score
        /\ scores[c].score.t = "num"
        /\ 1000 <= scores[c].score.n
        /\ scores[c].score.n <= 10000

\* C2 as stated: on every path the scores of the ScoreResult llm_score_page
\* returns hold exactly the requested criteria, each with a score from 1 to 10.
C2_ExactCriteriaInRange ==
    Returned => (DOMAIN result.scores = Requested /\ ScoresInRange(result.scores))

\* C2, amended: on every path the scores hold every requested criterion; on
\* the heuristic and the fallback path they hold exactly the requested
\* criteria, each with a score from 1 to 10; on the LLM path they hold the
\* reply's entries as given (any key, any value) and 0 for a missing criterion.
C2_RequestedAlwaysPresent ==
    Returned =>
        /\ Requested \subseteq DOMAIN result.scores
        /\ path \in {"mock", "fallback"} =>
              (DOMAIN result.scores = Requested /\ ScoresInRange(result.scores))
        /\ path = "llm" =>
              /\ DOMAIN result.scores = Requested \cup DOMAIN content.scores
              /\ \A c \in DOMAIN content.scores : result.scores[c] = content.scores[c]
              /\ \A c \in Requested \ DOMAIN content.scores : result.scores[c].score = Num(0)

C2_Witness ==
    /\ Returned /\ path = "fallback"
    /\ req.criteria.list = <<"overall", "clarity">>
    /\ Html = <<H1Chunk>>
    /\ result.scores["overall"].score.n = 5000
    /\ result.scores["clarity"].score.n = 7000

\* C3: whatever the LLM replies, the score and the compare operation complete
\* with a result: no error caused by the reply reaches the caller.
C3_NoErrorSurfaces == pc # "failed" /\ surfaced = ""

\* C4: a compare request returns a delta with a key for every requested
\* criterion and for "overall"; delta[k] is after.scores[k].score minus
\* before.scores[k].score rounded to 2 decimals, and delta["overall"] is
\* after.overall minus before.overall rounded to 2 decimals.
C4_DeltaAsSpecified ==
    (pc = "done" /\ kind = "compare") =>
        /\ DOMAIN delta = Requested \cup {"overall"}
        /\ \A k \in Requested :
              IsRounded2(delta[k], after.scores[k].score.n - before.scores[k].score.n, 1)
        /\ IsRounded2(delta["overall"], after.overall - before.overall, 1)

\* the swapped compare request has finished after the first one
BothCompared == pc = "done" /\ kind = "compare" /\ swap.active

Antisymmetric ==
    /\ DOMAIN delta = DOMAIN swap.delta
    /\ \A k \in DOMAIN delta : delta[k] = 0 - swap.delta[k]

\* C5 as stated: for all pages X, Y and every key k,
\* compare(X, Y).delta[k] = -compare(Y, X).delta[k].
C5_AntisymmetryAlways == BothCompared => Antisymmetric

\* C5, amended: the deltas of compare(X, Y) and compare(Y, X) are each
\* other's negation whenever each page got the same ScoreResult in both
\* requests, which is always so in heuristic mode.
C5_AntisymmetryWhenSameScores ==
    BothCompared =>
        /\ (USE_MOCK \/ ~OPENAI_API_KEY) => (before = swap.after /\ after = swap.before)
        /\ (before = swap.after /\ after = swap.before) => Antisymmetric

C5_Witness ==
    /\ BothCompared
    /\ USE_MOCK
    /\ req.criteria.list = <<"clarity", "overall">>
    /\ delta["clarity"] = 3000
    /\ swap.delta["clarity"] = 0 - 3000

\* C6 as stated: on every path overall is the mean of the scores of the
\* result rounded to 2 decimals.
C6_OverallIsMeanAlways ==
    (Returned /\ AllNumeric(result.scores)) => OverallIsRoundedMean(result)

\* C6, amended: overall is the mean of the scores rounded to 2 decimals on
\* the heuristic and the fallback path, and on the LLM path when the reply's
\* overall is absent or not a number; a numeric overall of the reply is
\* returned as it is.
C6_OverallIsMeanUnlessKept ==
    Returned =>
        IF path = "llm" /\ content.has_overall /\ content.overall.t = "num"
        THEN result.overall = content.overall.n
        ELSE OverallIsRoundedMean(result)

C6_Witness ==
    /\ Returned /\ path = "fallback"
    /\ Html = <<>>
    /\ DOMAIN result.scores = {"clarity", "credibility", "cta"}
    /\ result.overall = 3670

\* C7: with USE_MOCK set or no credential the request goes straight to the
\* heuristic scorer: the client is never called and the result is
\* _mock_score's with its fixed notes; the LLM attempt is entered only with
\* the flag off and a credential present.
C7_MockModeNeverCallsLLM ==
    /\ (USE_MOCK \/ ~OPENAI_API_KEY) =>
          /\ llm_calls = 0
          /\ pc \notin {"llm_attempt", "normalize", "except"}
          /\ Returned =>
                /\ path = "mock"
                /\ result = _mock_score(Html, Criteria(req.criteria))
                /\ result.notes = "Mock mode: heuristic scoring"
    /\ (pc \in {"llm_attempt", "normalize", "except"} \/ llm_calls > 0) =>
          (~USE_MOCK /\ OPENAI_API_KEY)

C7_Witness ==
    /\ ~USE_MOCK /\ ~OPENAI_API_KEY
    /\ Returned /\ kind = "score" /\ path = "mock"
    /\ result.notes = "Mock mode: heuristic scoring"

\* C8: no retries: one llm_score_page call invokes the client at most once
\* and a failure is followed by the fallback without a second invocation, so
\* a score request invokes it at most once and a compare request at most
\* twice.
C8_NoRetries ==
    /\ kind = "score" => llm_calls <= 1
    /\ kind = "compare" => llm_calls <= (IF phase = "before" THEN 1 ELSE 2)
    /\ pc = "llm_attempt" => llm_calls <= (IF phase = "after" THEN 1 ELSE 0)
    /\ pc = "except" => llm_calls <= (IF phase = "after" THEN 2 ELSE 1)

C8_Witness ==
    /\ pc = "done" /\ kind = "compare"
    /\ llm_calls = 2
    /\ before.notes = "Mock fallback due to error: APITimeoutError"
    /\ after.notes = "Mock fallback due to error: APIConnectionError"

\* C9: the heuristic scorer gives clarity 4 + 3*have_h1 + 2*have_title +
\* (50 <= words <= 400), credibility 3 + min(7, trust_kw) and cta 4 +
\* 4*have_btn + 2*have_h1, each clamped to 1..10 and present only if
\* requested, 5 with feedback "OK" to any other requested criterion, and the
\* mean of the scores rounded to 2 decimals as overall (the empty page with
\* the default criteria: 4, 3, 4 and 3.67).
C9_HeuristicFormulas ==
    Returned =>
        LET s == result.scores
            w == words(Html)
            t == trust_kw(Html)
        IN  /\ DOMAIN s = Requested
            /\ "clarity" \in Requested =>
                  s["clarity"].score =
                      Num(1000 * InRange1To10(4 + 3 * B(have_h1(Html)) + 2 * B(have_title(Html))
                                                + B(50 <= w /\ w <= 400)))
            /\ "credibility" \in Requested =>
                  s["credibility"].score =
                      Num(1000 * InRange1To10(3 + (IF t < 7 THEN t ELSE 7)))
            /\ "cta" \in Requested =>
                  s["cta"].score =
                      Num(1000 * InRange1To10(4 + 4 * B(have_btn(Html)) + 2 * B(have_h1(Html))))
            /\ \A c \in Requested \ {"clarity", "credibility", "cta"} :
                  s[c] = [t |-> "obj", has_score |-> TRUE, score |-> Num(5000),
                          feedback |-> "OK"]
            /\ OverallIsRoundedMean(result)
            /\ (Html = <<>> /\ Requested = {"clarity", "credibility", "cta"}) =>
                  /\ s["clarity"].score.n = 4000
                  /\ s["credibility"].score.n = 3000
                  /\ s["cta"].score.n = 4000
                  /\ result.overall = 3670

C9_Witness ==
    /\ Returned
    /\ Html = <<H1Chunk, TitleChunk, Copy60Chunk>>
    /\ req.criteria.list = <<"clarity", "tone">>
    /\ result.scores["clarity"].score.n = 10000
    /\ result.scores["tone"].score.n = 5000
    /\ result.overall = 7500

\* what C10 says of the result r for the reply and the requested criteria
NormalizedAsStated(r, reply) ==
    LET given == IF reply.has_scores /\ reply.scores_t = "map" THEN DOMAIN reply.scores ELSE {}
    IN  /\ DOMAIN r.scores = given \cup Requested
        /\ \A c \in Requested \ given :
              r.scores[c] = [t |-> "obj", has_score |-> TRUE, score |-> Num(0),
                             feedback |-> ""]
        /\ \A c \in given : r.scores[c] = reply.scores[c]
        /\ IF reply.has_overall /\ reply.overall.t = "num"
           THEN r.overall = reply.overall.n
           ELSE OverallIsRoundedMean(r)
        /\ r.notes = IF reply.has_notes THEN reply.notes ELSE ""

\* C10 as stated: whenever the LLM's reply parses as an object, the result
\* holds every missing requested criterion with score 0 and empty feedback,
\* the reply's entries unchanged, overall recomputed as the rounded mean iff
\* the reply's overall is absent or not numeric, and notes "" when absent.
C10_EveryObjectNormalized ==
    (Returned /\ content.t = "obj") => NormalizedAsStated(result, content)

\* C10, amended: the same, for a reply that parses as an object and that the
\* normalisation accepts without raising (its scores, if given, is a mapping,
\* and whenever overall has to be recomputed every entry is a mapping with a
\* numeric score); any other reply ends in the fallback.
C10_AcceptedObjectNormalized ==
    Returned =>
        /\ path = "llm" => (content.t = "obj" /\ NormalizedAsStated(result, content))
        /\ (path = "fallback" /\ content.t = "obj") =>
              \/ content.has_scores /\ content.scores_t # "map"
              \/ /\ ~(content.has_overall /\ content.overall.t = "num")
                 /\ ~AllNumeric(content.scores)

C10_Witness ==
    /\ Returned /\ path = "llm"
    /\ content = EmptyObject
    /\ req.criteria.list = <<"clarity", "overall">>
    /\ result.scores["clarity"].score.n = 0
    /\ result.overall = 0
    /\ result.notes = ""

=============================================================================
